---- MODULE Spec2Model ----
(***************************************************************************)
(* Sentencer: the Flask sentence proxy of src/flask_proxy.py.              *)
(*                                                                         *)
(* The model covers the SentenceScraper class (the three site scrapers and *)
(* process_sentences) and the two request handlers get_sentences and       *)
(* get_batch_sentences.  Python strings are TLA+ strings; a character is   *)
(* a string of length one.  A value that may be None (a scraper's result,   *)
(* an image_url) is a sequence: <<>> for None, <<v>> for v.                *)
(* What the network and the HTML parser deliver is the environment: every  *)
(* scraper call draws its page (or a fetch failure) from a bounded set.    *)
(***************************************************************************)
EXTENDS Integers, Sequences, FiniteSets, TLC

(***************************************************************************)
(* Strings: the str methods and the re patterns the program uses.          *)
(***************************************************************************)

\* s[i-1] in Python: the i-th character, 1-based.
Ch(s, i) == SubSeq(s, i, i)

\* \d of the re module (ASCII).
IsDigit(c) == c \in {"0", "1", "2", "3", "4", "5", "6", "7", "8", "9"}

\* \s of the re module, and what str.strip() removes.
IsSpace(c) == c \in {" ", "\t", "\n", "\r", "\f"}

UpperAlpha == "ABCDEFGHIJKLMNOPQRSTUVWXYZ"
LowerAlpha == "abcdefghijklmnopqrstuvwxyz"

\* The position of character c in string s, 0 when absent.
RECURSIVE IndexFrom(_, _, _)
IndexFrom(s, c, i) ==
  IF i > Len(s) THEN 0
  ELSE IF Ch(s, i) = c THEN i
  ELSE IndexFrom(s, c, i + 1)

\* The characters A-Z and a-z.
UpperSet == {Ch(UpperAlpha, k) : k \in 1..Len(UpperAlpha)}
LowerSet == {Ch(LowerAlpha, k) : k \in 1..Len(LowerAlpha)}

\* str.lower() on one character.
LowerCh(c) ==
  IF c \in UpperSet THEN Ch(LowerAlpha, IndexFrom(UpperAlpha, c, 1)) ELSE c

\* str.lower().
RECURSIVE lower(_)
lower(s) == IF s = "" THEN "" ELSE LowerCh(Ch(s, 1)) \o lower(Tail(s))

\* str.lstrip() and str.rstrip(), which together are str.strip().
RECURSIVE lstrip(_)
lstrip(s) ==
  IF s = "" THEN ""
  ELSE IF IsSpace(Ch(s, 1)) THEN lstrip(Tail(s))
  ELSE s

RECURSIVE rstrip(_)
rstrip(s) ==
  IF s = "" THEN ""
  ELSE IF IsSpace(Ch(s, Len(s))) THEN rstrip(SubSeq(s, 1, Len(s) - 1))
  ELSE s

strip(s) == rstrip(lstrip(s))

\* str.startswith(prefix).
startswith(s, prefix) ==
  /\ Len(s) >= Len(prefix)
  /\ SubSeq(s, 1, Len(prefix)) = prefix

\* The end of the longest run of digits that starts at p (p - 1 when s[p] is
\* no digit): what a greedy \d+ consumes.
RECURSIVE DigitsEnd(_, _)
DigitsEnd(s, p) ==
  IF p <= Len(s) /\ IsDigit(Ch(s, p)) THEN DigitsEnd(s, p + 1) ELSE p - 1

\* The end of the longest run of whitespace that starts at p: a greedy \s+.
RECURSIVE SpacesEnd(_, _)
SpacesEnd(s, p) ==
  IF p <= Len(s) /\ IsSpace(Ch(s, p)) THEN SpacesEnd(s, p + 1) ELSE p - 1

\* The first ")" at or after q that a lazy .*? reaches from q: "." does not
\* match a newline, so the search stops there.  0 when there is none.
RECURSIVE CloseParen(_, _)
CloseParen(s, q) ==
  IF q > Len(s) THEN 0
  ELSE IF Ch(s, q) = ")" THEN q
  ELSE IF Ch(s, q) = "\n" THEN 0
  ELSE CloseParen(s, q + 1)

\* Where a match of (\(\d+\)|\(.*?\)|\d+\.)|^\d+[\.,]|^\d+ that starts at p
\* ends, 0 when the pattern does not match at p.  The alternatives are tried
\* in the order written; ^ matches at the start of the string only.
MatchEnd(s, p) ==
  LET c == Ch(s, p)
      d == DigitsEnd(s, p)
  IN IF c = "("
     THEN LET n == DigitsEnd(s, p + 1)
          IN IF n > p /\ n < Len(s) /\ Ch(s, n + 1) = ")"
             THEN n + 1
             ELSE CloseParen(s, p + 1)
     ELSE IF d >= p
     THEN IF d < Len(s) /\ Ch(s, d + 1) = "." THEN d + 1
          ELSE IF p = 1 /\ d < Len(s) /\ Ch(s, d + 1) = "," THEN d + 1
          ELSE IF p = 1 THEN d
          ELSE 0
     ELSE 0

\* regex.sub(' ', s) from position p on: every non-overlapping match, found
\* left to right, becomes one space.
RECURSIVE RegexSub(_, _)
RegexSub(s, p) ==
  IF p > Len(s) THEN ""
  ELSE LET e == MatchEnd(s, p)
       IN IF e = 0
          THEN Ch(s, p) \o RegexSub(s, p + 1)
          ELSE " " \o RegexSub(s, e + 1)

\* re.sub(r'\s+', ' ', s).
RECURSIVE CollapseSpaces(_, _)
CollapseSpaces(s, p) ==
  IF p > Len(s) THEN ""
  ELSE LET e == SpacesEnd(s, p)
       IN IF e < p
          THEN Ch(s, p) \o CollapseSpaces(s, p + 1)
          ELSE " " \o CollapseSpaces(s, e + 1)

\* str(n) for a natural number.
RECURSIVE IntStr(_)
IntStr(n) ==
  IF n < 10 THEN Ch("0123456789", n + 1)
  ELSE IntStr(n \div 10) \o Ch("0123456789", (n % 10) + 1)

(***************************************************************************)
(* Program constants.                                                      *)
(***************************************************************************)

\* len(cleaned) < 10 rejects a fragment.
MinLength == 10
\* process_sentences stops after 30 accepted sentences.
SourceCap == 30
\* scrape_cambridge returns sentences[:20].
CambridgeCap == 20
\* scrape_yourdictionary returns sentences[:20].
YourDictionaryCap == 20
\* get_sentences returns unique_sentences[:30].
ResultLimit == 30
\* get_batch_sentences rejects more than 10 words.
MaxBatch == 10

Min(a, b) == IF a < b THEN a ELSE b

\* seq[:n].
Take(seq, n) == SubSeq(seq, 1, Min(n, Len(seq)))

\* Python truthiness of a str.
NonEmpty(text) == text # ""

(***************************************************************************)
(* SentenceScraper.process_sentences                                       *)
(*                                                                         *)
(* The def of line 136 stands one level deeper than the other methods,     *)
(* which Python rejects with an IndentationError; it is read here as the   *)
(* method of SentenceScraper that line 64 calls.                           *)
(***************************************************************************)

\* cleaned, as lines 145-148 compute it from one sentence.
Cleaned(sentence) == CollapseSpaces(strip(RegexSub(sentence, 1)), 1)

\* The two "continue" tests of the loop body (lines 142 and 151) both pass.
Accepted(sentence) ==
  /\ strip(sentence) # ""
  /\ LET cleaned == Cleaned(sentence)
     IN /\ ~(Len(cleaned) < MinLength)
        /\ ~startswith(lower(cleaned), "show all")
        /\ ~startswith(lower(cleaned), "random good")

\* f"{i}. {cleaned}": i is the enumerate() index of the raw sentence.
Numbered(i, cleaned) == IntStr(i) \o ". " \o cleaned

\* The for loop of process_sentences from raw index i on.
RECURSIVE ProcessFrom(_, _, _)
ProcessFrom(sentences, i, processed) ==
  IF i > Len(sentences) THEN processed
  ELSE IF ~Accepted(sentences[i]) THEN ProcessFrom(sentences, i + 1, processed)
  ELSE LET next == Append(processed, Numbered(i, Cleaned(sentences[i])))
       IN IF Len(next) >= SourceCap THEN next
          ELSE ProcessFrom(sentences, i + 1, next)

process_sentences(sentences) == ProcessFrom(sentences, 1, <<>>)

(***************************************************************************)
(* The three scrapers.  A page is what requests and BeautifulSoup hand to  *)
(* the scraper: ok = FALSE when the fetch or the parse raised, otherwise   *)
(* the get_text(strip=True) of the elements each selector matched, in      *)
(* document order.  A scraper returns <<>> for None and <<dict>> for a     *)
(* dict.                                                                   *)
(***************************************************************************)

\* urljoin(url, src) for url = https://sentencedict.com/{word}.html: an
\* absolute src is kept, a rooted or relative one is resolved on the host.
urljoin(word, src) ==
  IF startswith(src, "http://") \/ startswith(src, "https://") THEN src
  ELSE IF startswith(src, "/") THEN "https://sentencedict.com" \o src
  ELSE "https://sentencedict.com/" \o src

\* The text filter of lines 54-55.
KeepSentencedict(text) == NonEmpty(text) /\ ~startswith(text, "Sentencedict.com")

scrape_sentencedict(word, page) ==
  IF ~page.ok THEN <<>>
  ELSE LET sentences == SelectSeq(page.all, KeepSentencedict)
                        \o SelectSeq(page.student, KeepSentencedict)
           image_url == IF page.img # <<>> /\ NonEmpty(page.img[1])
                        THEN <<urljoin(word, page.img[1])>>
                        ELSE <<>>
       IN << [sentences |-> process_sentences(sentences),
              image_url |-> image_url,
              source    |-> "sentencedict.com"] >>

scrape_cambridge(word, page) ==
  IF ~page.ok THEN <<>>
  ELSE << [sentences |-> Take(SelectSeq(page.eg, NonEmpty), CambridgeCap),
           image_url |-> <<>>,
           source    |-> "cambridge.org"] >>

scrape_yourdictionary(word, page) ==
  IF ~page.ok THEN <<>>
  ELSE << [sentences |-> Take(SelectSeq(page.items, NonEmpty), YourDictionaryCap),
           image_url |-> <<>>,
           source    |-> "yourdictionary.com"] >>

(***************************************************************************)
(* get_sentences: the pure parts.                                          *)
(***************************************************************************)

\* re.sub(r'[^a-zA-Z\-]', '', s): the characters that stay.
RECURSIVE KeepWordChars(_)
KeepWordChars(s) ==
  IF s = "" THEN ""
  ELSE LET c == Ch(s, 1)
       IN (IF c \in LowerSet \/ c \in UpperSet \/ c = "-" THEN c ELSE "")
          \o KeepWordChars(Tail(s))

\* Lines 178 and 259.
Sanitize(word) == KeepWordChars(strip(lower(word)))

\* Contributes without the test of result['sentences']: a faulty variant,
\* under which C4 must fail.
ContributesAnyDict(result) == result # <<>>

\* "result and result['sentences']" of line 197.
Contributes(result) == result # <<>> /\ result[1].sentences # <<>>

\* Combined with the later source first: a faulty variant, under which C2
\* must fail.
RECURSIVE CombinedReversed(_)
CombinedReversed(all_results) ==
  IF all_results = <<>> THEN <<>>
  ELSE CombinedReversed(Tail(all_results)) \o Head(all_results).sentences

\* combined_sentences after the loop of lines 217-221.
RECURSIVE Combined(_)
Combined(all_results) ==
  IF all_results = <<>> THEN <<>>
  ELSE Head(all_results).sentences \o Combined(Tail(all_results))

\* image_url after the loop of lines 217-221: the first truthy one.
RECURSIVE FirstImage(_)
FirstImage(all_results) ==
  IF all_results = <<>> THEN <<>>
  ELSE IF Head(all_results).image_url # <<>> THEN Head(all_results).image_url
  ELSE FirstImage(Tail(all_results))

\* simple = re.sub(r'^\d+\.\s*', '', sentence.lower()).
Simple(sentence) ==
  LET s == lower(sentence)
      d == DigitsEnd(s, 1)
  IN IF d >= 1 /\ d < Len(s) /\ Ch(s, d + 1) = "."
     THEN SubSeq(s, SpacesEnd(s, d + 2) + 1, Len(s))
     ELSE s

\* Unique without the test of seen: a faulty variant, under which C1 must
\* fail.
UniqueKeepingAll(combined, seen, unique_sentences) == unique_sentences \o combined

\* The loop of lines 224-231.
RECURSIVE Unique(_, _, _)
Unique(combined, seen, unique_sentences) ==
  IF combined = <<>> THEN unique_sentences
  ELSE LET simple == Simple(Head(combined))
       IN IF simple \notin seen
          THEN Unique(Tail(combined), seen \cup {simple},
                      Append(unique_sentences, Head(combined)))
          ELSE Unique(Tail(combined), seen, unique_sentences)

\* The set of result['source'] of a list of results.
SourcesOf(all_results) == {all_results[k].source : k \in 1..Len(all_results)}

(***************************************************************************)
(* The environment: requests, and the pages the three sites serve.         *)
(***************************************************************************)

\* Longest list of #all fragments a sentencedict page is enumerated with.
MaxFrags == 2
\* Longest list of .eg fragments a Cambridge page is enumerated with.
MaxEg == 1
\* By how many fragments the long pages exceed the cap of their scraper.
Extra == 2
\* Longest enumerated words array of a batch request.
MaxWords == 2

\* All lists of at most n elements of S.
ListsUpTo(S, n) == UNION {[1..k -> S] : k \in 0..n}

\* The k-th of a family of pairwise different sentences, k < 26 * 26.
Gen(k) ==
  "Sentence " \o Ch(LowerAlpha, (k \div 26) + 1)
              \o Ch(LowerAlpha, (k % 26) + 1) \o "."

\* Gen(from + 1), ..., Gen(from + n).
GenList(from, n) == [k \in 1..n |-> Gen(from + k)]

\* Texts of '#all > div' elements.
SentencedictFragments == {"He is happy.", "(1) HE IS HAPPY.", "Show all"}

\* Texts of '.eg' elements.
CambridgeFragments == {"he is happy.", "Hi (there)"}

\* src attributes of the image element.
ImageSrcs == {"", "/pic/cat.jpg", "https://img.example/cat.jpg"}

\* A page whose fetch or parse raised.
FailedPage == [ok |-> FALSE]

SentencedictPages ==
  {FailedPage}
  \cup {[ok |-> TRUE, all |-> l, student |-> <<>>, img |-> <<>>] :
          l \in ListsUpTo(SentencedictFragments, MaxFrags)}
  \cup {[ok |-> TRUE, all |-> <<"Sentencedict.com try its best", "12. He is happy.">>,
         student |-> <<"She is happy too.">>, img |-> <<src>>] : src \in ImageSrcs}
  \cup {[ok |-> TRUE, all |-> <<"Too short", "1 2 three four five.">>,
         student |-> <<"(a)1 is a number. ">>, img |-> <<>>]}
  \cup {[ok |-> TRUE, all |-> GenList(0, SourceCap + Extra),
         student |-> <<"Random good picture">>, img |-> <<>>]}

CambridgePages ==
  {FailedPage}
  \cup {[ok |-> TRUE, eg |-> l] : l \in ListsUpTo(CambridgeFragments, MaxEg)}
  \cup {[ok |-> TRUE, eg |-> <<"She is happy too.", "", "1. she is happy too.">>]}
  \cup {[ok |-> TRUE, eg |-> GenList(SourceCap - 5, CambridgeCap + Extra)]}

YourDictionaryPages ==
  {FailedPage}
  \cup {[ok |-> TRUE, items |-> l] :
          l \in {<<>>, <<"HE IS HAPPY.">>, <<"", "You are welcome here.">>}}
  \cup {[ok |-> TRUE, items |-> GenList(SourceCap + CambridgeCap, YourDictionaryCap + Extra)]}

\* The sentencedict pages a batch word is served.
BatchPages ==
  {FailedPage,
   [ok |-> TRUE, all |-> <<>>, student |-> <<>>, img |-> <<>>],
   [ok |-> TRUE, all |-> <<"Show all">>, student |-> <<>>, img |-> <<"/pic/cat.jpg">>],
   [ok |-> TRUE, all |-> <<"He is happy.">>, student |-> <<>>, img |-> <<>>]}

\* <word> path segments of GET /sentences/<word>.
RawWords == {"Cat ", "??", "  "}

\* The limit query argument: <<>> when absent.
RawLimits == {<<>>, <<999>>}

\* Elements of the words array of a batch body.
BatchWords == {"cat", "Dog!", "??"}

\* JSON bodies of POST /batch-sentences: json = FALSE for a missing or empty
\* body, has_words for the 'words' key, is_list for isinstance(words, list).
BatchBodies ==
  {[json |-> FALSE, has_words |-> FALSE, is_list |-> FALSE, words |-> <<>>],
   [json |-> TRUE, has_words |-> FALSE, is_list |-> FALSE, words |-> <<>>],
   [json |-> TRUE, has_words |-> TRUE, is_list |-> FALSE, words |-> <<>>]}
  \cup {[json |-> TRUE, has_words |-> TRUE, is_list |-> TRUE, words |-> l] :
          l \in ListsUpTo(BatchWords, MaxWords)}
  \cup {[json |-> TRUE, has_words |-> TRUE, is_list |-> TRUE,
         words |-> [k \in 1..n |-> "cat"]] : n \in {MaxBatch, MaxBatch + 1}}

(***************************************************************************)
(* The server.  pc is the position of the handler in progress:             *)
(*   "idle"     no request is being handled                                *)
(*   "sources"  get_sentences is in its loop over the sources (line 194)   *)
(*   "batch"    get_batch_sentences is in its loop over words (line 258)   *)
(*   "done"     the handler has returned resp                              *)
(***************************************************************************)
VARIABLES
  pc,           \* position of the handler
  req,          \* the request being handled
  word,         \* get_sentences: the sanitized word
  i,            \* index of the next source, or of the next batch word
  calls,        \* the scrapers called so far, in call order
  returned,     \* get_sentences: what each of those calls returned
  all_results,  \* get_sentences: all_results
  results,      \* get_batch_sentences: results
  resp          \* the response returned

vars == <<pc, req, word, i, calls, returned, all_results, results, resp>>

NoRequest == [route |-> "none"]
NoResponse == [status |-> 0]

\* The list named sources at lines 186-190.
sources == <<"scrape_sentencedict", "scrape_cambridge", "scrape_yourdictionary">>

\* The pages the k-th source may be served.
PagesOf(k) ==
  CASE k = 1 -> SentencedictPages
    [] k = 2 -> CambridgePages
    [] k = 3 -> YourDictionaryPages

\* source_func(word) for the k-th source, served page.
source_func(k, w, page) ==
  CASE k = 1 -> scrape_sentencedict(w, page)
    [] k = 2 -> scrape_cambridge(w, page)
    [] k = 3 -> scrape_yourdictionary(w, page)

Init ==
  /\ pc = "idle"
  /\ req = NoRequest
  /\ word = ""
  /\ i = 0
  /\ calls = <<>>
  /\ returned = <<>>
  /\ all_results = <<>>
  /\ results = <<>>
  /\ resp = NoResponse

\* jsonify({'error': message}), 400.
BadRequest(message) == [status |-> 400, error |-> message]

\* get_sentences, lines 172-192: validation and sanitization of the word.
GetRequest(rawWord, rawLimit) ==
  /\ pc = "idle"
  /\ req' = [route |-> "sentences", word |-> rawWord, limit |-> rawLimit]
  /\ calls' = <<>>
  /\ returned' = <<>>
  /\ all_results' = <<>>
  /\ results' = <<>>
  /\ IF rawWord = "" \/ Len(strip(rawWord)) = 0
     THEN /\ resp' = BadRequest("Word parameter is required")
          /\ pc' = "done"
          /\ UNCHANGED <<word, i>>
     ELSE /\ word' = Sanitize(rawWord)
          /\ IF word' = ""
             THEN /\ resp' = BadRequest("Invalid word format")
                  /\ pc' = "done"
                  /\ i' = i
             ELSE /\ resp' = NoResponse
                  /\ pc' = "sources"
                  /\ i' = 1

\* CallSource leaving the loop when a scraper returns None: a faulty variant,
\* under which C5 must fail.
CallSourceAborting ==
  /\ pc = "sources"
  /\ i <= Len(sources)
  /\ \E page \in PagesOf(i) :
       LET result == source_func(i, word, page)
       IN /\ returned' = Append(returned, result)
          /\ all_results' = IF Contributes(result)
                            THEN Append(all_results, result[1])
                            ELSE all_results
          /\ i' = IF result = <<>> THEN Len(sources) + 1 ELSE i + 1
  /\ calls' = Append(calls, sources[i])
  /\ UNCHANGED <<pc, req, word, results, resp>>

\* One iteration of the loop of lines 194-201.  A scraper catches every
\* Exception itself (lines 72, 102, 132), so the except clause of line 199
\* has nothing to catch.
CallSource ==
  /\ pc = "sources"
  /\ i <= Len(sources)
  /\ \E page \in PagesOf(i) :
       LET result == source_func(i, word, page)
       IN /\ returned' = Append(returned, result)
          /\ all_results' = IF Contributes(result)
                            THEN Append(all_results, result[1])
                            ELSE all_results
  /\ calls' = Append(calls, sources[i])
  /\ i' = i + 1
  /\ UNCHANGED <<pc, req, word, results, resp>>

\* Lines 203-210: no source contributed.
RespondNotFound ==
  /\ pc = "sources"
  /\ i > Len(sources)
  /\ all_results = <<>>
  /\ resp' = [status          |-> 200,
              word            |-> word,
              sentences       |-> <<"No sentences found for this word.">>,
              image_url       |-> <<>>,
              sources         |-> {},
              total_sentences |-> 0]
  /\ pc' = "done"
  /\ UNCHANGED <<req, word, i, calls, returned, all_results, results>>

\* Limited without the slice: a faulty variant, under which the amended C3
\* must fail.
Unlimited(unique_sentences) == unique_sentences

\* unique_sentences[:30].
Limited(unique_sentences) == Take(unique_sentences, ResultLimit)

\* Lines 212-239: combine, remove duplicates, limit.  list(set(sources_used))
\* has no defined order, so the sources of the response are a set.
RespondCombined ==
  /\ pc = "sources"
  /\ i > Len(sources)
  /\ all_results # <<>>
  /\ \E unique_sentences \in {Unique(Combined(all_results), {}, <<>>)} :
       resp' = [status          |-> 200,
                word            |-> word,
                sentences       |-> Limited(unique_sentences),
                image_url       |-> FirstImage(all_results),
                sources         |-> SourcesOf(all_results),
                total_sentences |-> Len(unique_sentences)]
  /\ pc' = "done"
  /\ UNCHANGED <<req, word, i, calls, returned, all_results, results>>

\* BatchError with >= for > in the size check: a faulty variant, under which
\* C7 must fail.
BatchErrorOffByOne(body) ==
  IF ~body.json \/ ~body.has_words THEN "Words array is required"
  ELSE IF ~body.is_list \/ Len(body.words) = 0 THEN "Words must be a non-empty array"
  ELSE IF Len(body.words) >= MaxBatch THEN "Maximum 10 words per batch"
  ELSE ""

\* The three checks of lines 246-254: the error message of the first one
\* that fails, "" when the body passes.
BatchError(body) ==
  IF ~body.json \/ ~body.has_words THEN "Words array is required"
  ELSE IF ~body.is_list \/ Len(body.words) = 0 THEN "Words must be a non-empty array"
  ELSE IF Len(body.words) > MaxBatch THEN "Maximum 10 words per batch"
  ELSE ""

\* get_batch_sentences, lines 244-256: validation of the body.
BatchRequest(body) ==
  /\ pc = "idle"
  /\ req' = [route |-> "batch", body |-> body]
  /\ calls' = <<>>
  /\ returned' = <<>>
  /\ all_results' = <<>>
  /\ results' = <<>>
  /\ UNCHANGED word
  /\ IF BatchError(body) # ""
     THEN /\ resp' = BadRequest(BatchError(body))
          /\ pc' = "done"
          /\ i' = i
     ELSE /\ resp' = NoResponse
          /\ pc' = "batch"
          /\ i' = 1

\* The entry of lines 267-271.
NotFoundEntry ==
  [sentences |-> <<"No sentences found.">>, image_url |-> <<>>, source |-> "none"]

\* The entry results[word] gets at lines 264-271: "if result" is true of
\* every dict the scraper returns, since it always has three keys.
BatchEntry(result) == IF result # <<>> THEN result[1] ELSE NotFoundEntry

\* One iteration of the loop of lines 258-278.  scrape_sentencedict catches
\* every Exception itself, so the except clause of line 272 has nothing to
\* catch.
BatchWord ==
  /\ pc = "batch"
  /\ i <= Len(req.body.words)
  /\ LET w == Sanitize(req.body.words[i])
     IN IF w # ""
        THEN \E page \in BatchPages :
               LET result == scrape_sentencedict(w, page)
               IN /\ calls' = Append(calls, sources[1])
                  /\ results' = (w :> BatchEntry(result)) @@ results
        ELSE UNCHANGED <<calls, results>>
  /\ i' = i + 1
  /\ UNCHANGED <<pc, req, word, returned, all_results, resp>>

\* Line 280.
BatchRespond ==
  /\ pc = "batch"
  /\ i > Len(req.body.words)
  /\ resp' = [status |-> 200, results |-> results]
  /\ pc' = "done"
  /\ UNCHANGED <<req, word, i, calls, returned, all_results, results>>

\* The handler has returned; every local of it is gone and the server waits
\* for the next request.
Return ==
  /\ pc = "done"
  /\ pc' = "idle"
  /\ req' = NoRequest
  /\ word' = ""
  /\ i' = 0
  /\ calls' = <<>>
  /\ returned' = <<>>
  /\ all_results' = <<>>
  /\ results' = <<>>
  /\ resp' = NoResponse

Next ==
  \/ \E rawWord \in RawWords, rawLimit \in RawLimits : GetRequest(rawWord, rawLimit)
  \/ CallSource
  \/ RespondNotFound
  \/ RespondCombined
  \/ \E body \in BatchBodies : BatchRequest(body)
  \/ BatchWord
  \/ BatchRespond
  \/ Return

Spec == Init /\ [][Next]_vars

(***************************************************************************)
(* Vocabulary of the properties.                                           *)
(***************************************************************************)

\* s without a leading display number "<digits>." and the blanks after it.
StripNumbering(s) ==
  LET d == DigitsEnd(s, 1)
  IN IF d >= 1 /\ d < Len(s) /\ Ch(s, d + 1) = "."
     THEN SubSeq(s, SpacesEnd(s, d + 2) + 1, Len(s))
     ELSE s

\* The case-insensitive, numbering-stripped form of a sentence.
Canonical(s) == lower(StripNumbering(s))

\* The sentences a scraper call handed back: none for None.
SentencesOf(result) == IF result = <<>> THEN <<>> ELSE result[1].sentences

\* The sentence lists the calls returned, concatenated in call order.
RECURSIVE ConcatReturned(_)
ConcatReturned(rs) ==
  IF rs = <<>> THEN <<>> ELSE SentencesOf(Head(rs)) \o ConcatReturned(Tail(rs))

\* The first position of x in seq, 0 when x is not in it.
RECURSIVE FirstPos(_, _, _)
FirstPos(seq, x, p) ==
  IF p > Len(seq) THEN 0
  ELSE IF seq[p] = x THEN p
  ELSE FirstPos(seq, x, p + 1)

\* The canonical forms of the sentences of a list, in the order of the list.
CanonicalSeq(seq) == [k \in 1..Len(seq) |-> Canonical(seq[k])]

\* The elements of a sequence.
Range(seq) == {seq[k] : k \in 1..Len(seq)}

\* get_sentences has returned a 200 response.
GetDone == pc = "done" /\ req.route = "sentences" /\ resp.status = 200

\* get_batch_sentences has returned a 200 response.
BatchDone == pc = "done" /\ req.route = "batch" /\ resp.status = 200

\* The sentence of the response of lines 204-210.
Placeholder == "No sentences found for this word."

\* The site behind each entry of sources, in priority order.
Sites == <<"sentencedict.com", "cambridge.org", "yourdictionary.com">>

\* The limit of the claim: the query argument clamped to [1, 50], default 20.
ClampedLimit(rawLimit) ==
  IF rawLimit = <<>> THEN 20
  ELSE IF rawLimit[1] < 1 THEN 1
  ELSE IF rawLimit[1] > 50 THEN 50
  ELSE rawLimit[1]

\* No call returned a sentence.
NothingReturned == \A k \in 1..Len(returned) : SentencesOf(returned[k]) = <<>>

\* t holds a "(" with a ")" after it.
HasParenGroup(t) ==
  \E p \in 1..Len(t) : Ch(t, p) = "(" /\ CloseParen(t, p + 1) # 0

\* The only whitespace of t is single blanks between other characters.
SingleSpaced(t) ==
  /\ strip(t) = t
  /\ \A p \in 1..Len(t) :
       IsSpace(Ch(t, p)) => Ch(t, p) = " " /\ ~IsSpace(Ch(t, p + 1))

\* s is a NormalizedSentence, numbering prefix aside.
IsNormalizedSentence(s) ==
  \A t \in {StripNumbering(s)} :
    /\ Len(t) >= 10
    /\ ~HasParenGroup(t)
    /\ SingleSpaced(t)
    /\ ~startswith(lower(t), "show all")
    /\ ~startswith(lower(t), "random good")

\* The words of the batch whose sanitized form is not empty.
ValidWords(words) == SelectSeq(words, LAMBDA w : Sanitize(w) # "")

\* The body carries a words array.
HasWordsArray(body) == body.json /\ body.has_words /\ body.is_list

\* The sentences scrape_sentencedict has returned to get_sentences.
NormalizerOutput ==
  IF Len(returned) >= 1 THEN SentencesOf(returned[1]) ELSE <<>>

(***************************************************************************)
(* C1.  The sentences a GET /sentences/{word} response returns hold no two *)
(* entries with the same case-insensitive, numbering-stripped form, and    *)
(* the entry kept for a form is its first occurrence in the concatenation  *)
(* of the sources' lists in priority order, hence the copy of the          *)
(* earlier-priority source.                                                *)
(***************************************************************************)
C1_DedupKeepsFirst ==
  GetDone /\ resp.sources # {} =>
    \A cat \in {ConcatReturned(returned)} :
      \A outC \in {CanonicalSeq(resp.sentences)}, catC \in {CanonicalSeq(cat)} :
        /\ \A a, b \in 1..Len(outC) : a # b => outC[a] # outC[b]
        /\ \A a \in 1..Len(outC) :
             \E p \in {FirstPos(catC, outC[a], 1)} :
               p # 0 /\ cat[p] = resp.sentences[a]

\* Two sources returned a sentence of the same canonical form, in different
\* spellings, and the response is out.
C1_Witness ==
  /\ GetDone
  /\ Len(all_results) >= 2
  /\ \E a \in 1..Len(all_results[1].sentences), b \in 1..Len(all_results[2].sentences) :
       /\ Canonical(all_results[1].sentences[a]) = Canonical(all_results[2].sentences[b])
       /\ all_results[1].sentences[a] # all_results[2].sentences[b]
       /\ FirstPos(resp.sentences, all_results[1].sentences[a], 1) # 0

(***************************************************************************)
(* C2.  The returned sentences are a subsequence of the concatenation of   *)
(* the sources' lists in priority order (sentencedict, then cambridge,     *)
(* then yourdictionary): each returned sentence is in the concatenation,   *)
(* and the first occurrences of the returned sentences come in the order   *)
(* in which the sentences are returned.                                    *)
(***************************************************************************)
C2_PriorityOrder ==
  GetDone /\ resp.sources # {} =>
    /\ \A k \in 1..Len(returned) :
         returned[k] = <<>> \/ returned[k][1].source = Sites[k]
    /\ \A cat \in {ConcatReturned(returned)} :
         \A pos \in {[a \in 1..Len(resp.sentences) |->
                        FirstPos(cat, resp.sentences[a], 1)]} :
           /\ \A a \in 1..Len(pos) : pos[a] # 0
           /\ \A a \in 1..(Len(pos) - 1) : pos[a] < pos[a + 1]

\* Two sources contributed and the response returns a sentence of each.
C2_Witness ==
  /\ GetDone
  /\ Len(all_results) >= 2
  /\ \E a, b \in 1..Len(resp.sentences) :
       /\ a < b
       /\ resp.sentences[a] \in Range(all_results[1].sentences)
       /\ resp.sentences[b] \in Range(all_results[2].sentences)
       /\ resp.sentences[b] \notin Range(all_results[1].sentences)

(***************************************************************************)
(* C3, as the claim states it.  Every response has                         *)
(* len(sentences) = min(limit, total_sentences), with limit the caller's   *)
(* limit clamped to [1, 50] and 20 when absent, and so                     *)
(* len(sentences) <= limit and total_sentences >= len(sentences).          *)
(***************************************************************************)
C3_CallerLimit ==
  GetDone =>
    /\ Len(resp.sentences) = Min(ClampedLimit(req.limit), resp.total_sentences)
    /\ Len(resp.sentences) <= ClampedLimit(req.limit)
    /\ resp.total_sentences >= Len(resp.sentences)

(***************************************************************************)
(* C3, amended.  The handler reads no limit: every response to which a     *)
(* source contributed has len(sentences) = min(30, total_sentences), where *)
(* total_sentences is the number of distinct canonical forms among the     *)
(* sources' sentences, and so len(sentences) <= 30 and                     *)
(* total_sentences >= len(sentences); the response to which no source      *)
(* contributed has one sentence and total_sentences = 0.                   *)
(***************************************************************************)
C3_FixedLimit ==
  GetDone =>
    IF resp.sources # {}
    THEN /\ Len(resp.sentences) = Min(ResultLimit, resp.total_sentences)
         /\ Len(resp.sentences) <= ResultLimit
         /\ resp.total_sentences >= Len(resp.sentences)
         /\ resp.total_sentences
              = Cardinality(Range(CanonicalSeq(ConcatReturned(returned))))
    ELSE Len(resp.sentences) = 1 /\ resp.total_sentences = 0

\* More distinct sentences than the limit came in and the response is cut.
C3_Witness ==
  /\ GetDone
  /\ resp.total_sentences > ResultLimit
  /\ Len(resp.sentences) = ResultLimit
  /\ req.limit # <<>>

(***************************************************************************)
(* C4.  For a valid word the request ends with status 200.  When every     *)
(* scraper returned None or a result without sentences, the response has   *)
(* total_sentences = 0, no sources, no image URL and exactly the one       *)
(* placeholder sentence; and a response with total_sentences = 0, with no  *)
(* sources or with no sentences is returned only then.                     *)
(***************************************************************************)
C4_TotalFailure ==
  /\ pc = "done" /\ req.route = "sentences" /\ Sanitize(req.word) # ""
       => resp.status = 200
  /\ GetDone =>
       /\ NothingReturned =>
            /\ resp.total_sentences = 0
            /\ resp.sources = {}
            /\ resp.image_url = <<>>
            /\ resp.sentences = <<Placeholder>>
       /\ resp.total_sentences = 0 \/ resp.sources = {} \/ resp.sentences = <<>>
            => NothingReturned

\* One scraper failed, another returned a result without sentences, and the
\* placeholder response is out.
C4_Witness ==
  /\ GetDone
  /\ resp.sentences = <<Placeholder>>
  /\ \E k \in 1..Len(returned) : returned[k] = <<>>
  /\ \E k \in 1..Len(returned) :
       returned[k] # <<>> /\ returned[k][1].sentences = <<>>

(***************************************************************************)
(* C5.  For a valid word the three scrapers are called once each, in the   *)
(* order sentencedict, cambridge, yourdictionary, whatever the earlier     *)
(* calls returned; the request ends with status 200; and no sentence of a  *)
(* scraper that succeeded is lost to another one's failure: its source is  *)
(* listed, total_sentences counts the distinct canonical forms of all the  *)
(* sentences returned, and when that count is within the limit of 30 each  *)
(* of those forms is in the response.                                      *)
(***************************************************************************)
C5_SourcesIsolated ==
  /\ pc = "sources" => calls = SubSeq(sources, 1, i - 1) /\ Len(returned) = Len(calls)
  /\ pc = "done" /\ req.route = "sentences" /\ Sanitize(req.word) # ""
       => resp.status = 200 /\ calls = sources /\ Len(returned) = Len(sources)
  /\ GetDone =>
       \A want \in {Range(CanonicalSeq(ConcatReturned(returned)))} :
         /\ \A k \in 1..Len(returned) :
              SentencesOf(returned[k]) # <<>> => Sites[k] \in resp.sources
         /\ want # {} => resp.total_sentences = Cardinality(want)
         /\ want # {} /\ Cardinality(want) <= ResultLimit
              => want = Range(CanonicalSeq(resp.sentences))

\* The first scraper failed, the second returned sentences, the third was
\* called all the same, and the second's sentences are in the response.
C5_Witness ==
  /\ GetDone
  /\ returned[1] = <<>>
  /\ SentencesOf(returned[2]) # <<>>
  /\ calls = sources
  /\ Range(returned[2][1].sentences) \subseteq Range(resp.sentences)

(***************************************************************************)
(* C6.  Every sentence of a response to which a source contributed is a    *)
(* NormalizedSentence, whichever scraper it came from: without its         *)
(* numbering prefix it has at least 10 characters, holds no parenthesized  *)
(* group, is single-spaced and does not start with "show all" or           *)
(* "random good".                                                          *)
(***************************************************************************)
C6_AllNormalized ==
  GetDone /\ resp.sources # {} =>
    \A a \in 1..Len(resp.sentences) : IsNormalizedSentence(resp.sentences[a])

(***************************************************************************)
(* C7.  A batch request whose words array has 1 to 10 entries ends with    *)
(* status 200 and a results mapping whose keys are exactly the non-empty   *)
(* sanitized words; each entry is what scrape_sentencedict returned for    *)
(* the word or, when it returned None, the "No sentences found." entry;    *)
(* only scrape_sentencedict is called, once per such word, and a word is   *)
(* entered whatever the calls before it returned.  A words array with 0 or *)
(* more than 10 entries is answered 400 without any scraper call.          *)
(***************************************************************************)
C7_BatchIsolated ==
  /\ pc = "batch" =>
       /\ \A k \in 1..(i - 1) :
            Sanitize(req.body.words[k]) # "" => Sanitize(req.body.words[k]) \in DOMAIN results
       /\ \A k \in 1..Len(calls) : calls[k] = "scrape_sentencedict"
  /\ pc = "done" /\ req.route = "batch" /\ HasWordsArray(req.body) =>
       IF Len(req.body.words) >= 1 /\ Len(req.body.words) <= 10
       THEN /\ resp.status = 200
            /\ DOMAIN resp.results = {Sanitize(w) : w \in Range(req.body.words)} \ {""}
            /\ \A w \in DOMAIN resp.results :
                 \/ resp.results[w].source = "sentencedict.com"
                 \/ /\ resp.results[w].source = "none"
                    /\ resp.results[w].sentences = <<"No sentences found.">>
            /\ calls = [k \in 1..Len(ValidWords(req.body.words)) |-> "scrape_sentencedict"]
       ELSE resp.status = 400 /\ calls = <<>>

\* The call for the first word failed, and the second word got its sentences.
C7_Witness ==
  /\ BatchDone
  /\ Len(req.body.words) = 2
  /\ Sanitize(req.body.words[1]) # Sanitize(req.body.words[2])
  /\ Sanitize(req.body.words[1]) \in DOMAIN resp.results
  /\ Sanitize(req.body.words[2]) \in DOMAIN resp.results
  /\ resp.results[Sanitize(req.body.words[1])] = NotFoundEntry
  /\ resp.results[Sanitize(req.body.words[2])].source = "sentencedict.com"
  /\ resp.results[Sanitize(req.body.words[2])].sentences # <<>>

\* A batch of 11 words is answered 400 before any call.
C7_WitnessTooLarge ==
  /\ pc = "done" /\ req.route = "batch"
  /\ Len(req.body.words) > 10
  /\ resp.status = 400

(***************************************************************************)
(* C8.  The normalizer is idempotent: every sentence process_sentences     *)
(* hands out, taken without its numbering prefix, is accepted by a second  *)
(* pass that leaves it unchanged; in particular it does not begin with a   *)
(* digit and holds no parenthesized number.                                *)
(***************************************************************************)
C8_Idempotent ==
  \A a \in 1..Len(NormalizerOutput) :
    \A t \in {StripNumbering(NormalizerOutput[a])} :
      /\ Accepted(t)
      /\ Cleaned(t) = t
      /\ ~IsDigit(Ch(t, 1))
      /\ ~HasParenGroup(t)

(***************************************************************************)
(* C9.  A scraper never returns a result whose sentences are empty (it     *)
(* returns None instead), and no entry of a response, of get_sentences or  *)
(* of get_batch_sentences, carries an empty sentences list.                *)
(***************************************************************************)
C9_NeverEmptyResult ==
  /\ \A k \in 1..Len(returned) :
       returned[k] # <<>> => returned[k][1].sentences # <<>>
  /\ GetDone => resp.sentences # <<>>
  /\ BatchDone => \A w \in DOMAIN resp.results : resp.results[w].sentences # <<>>

(***************************************************************************)
(* C10.  The numbers process_sentences prepends are 1, 2, ..., k without   *)
(* gaps: the a-th sentence it hands out starts with "a. "; and it hands    *)
(* out at most 30 sentences.                                               *)
(***************************************************************************)
C10_DenseNumbering ==
  /\ Len(NormalizerOutput) <= 30
  /\ \A a \in 1..Len(NormalizerOutput) :
       startswith(NormalizerOutput[a], IntStr(a) \o ". ")

====
